---- MODULE Spec2Model ----
(***************************************************************************)
(* Model of the playlist direct-link extractor: the command-line entry     *)
(* point (playlist_grabber.main), the Sequential orchestrator              *)
(* (modules/orchestrator.process_playlist) and the Bounded orchestrator    *)
(* (modules/orchestrator_async.process_playlist with its thread pool).     *)
(*                                                                         *)
(* A playlist of N entries is the list of videos 1..N: video i has id i    *)
(* and title i.  The resolution client, the metadata source, the output    *)
(* file system and the user's Ctrl-C are the environment.                  *)
(***************************************************************************)
EXTENDS Integers, Sequences, FiniteSets, TLC

\* ---------------------------------------------------------------- bounds
MaxVideos == 3
MaxRetries == 2

\* ------------------------------------------------------ program constants
WorkersCap == 20
KiB == 1024
NoneSize == -1          \* Python's None in the 'filesize' field
MinDelay == 500         \* ms: main() raises a smaller --delay to 0.5 s
DefaultDelay == 1500    \* ms: the default of --delay
RetryPause == 500       \* ms: time.sleep(0.5) in _resolve_video_url
MaxSelected == 11       \* videos in one /api/generate-urls request, at most
WebWorkers == 10        \* ThreadPoolExecutor(max_workers=10) in generate_urls

VARIABLES
    args,           \* parsed command line: playlist_url, use_async, workers, retries,
                    \* delay (ms), and argv_workers, the --workers value as typed
    source,         \* metadata source: [raises, entries] (entries = number of videos)
    det,            \* TRUE: the resolution client answers the same for an id on every call
    client,         \* the deterministic client's answer per id (read only when det)
    pc,             \* position of the main thread
    videos,         \* the list returned by get_playlist_videos
    result,         \* process_playlist's result dictionary
    video_data,     \* successes, in the order they were appended
    failed_videos,  \* titles of failed videos, in the order they were appended
    st,             \* per video: "new", "queued", "running", "done", "recorded"
    calls,          \* per video: number of get_direct_url calls started
    fut,            \* per video: what its retry loop has produced (direct_url, format_info)
    raised,         \* exception propagating out of process_playlist ("none" if none)
    interrupted,    \* where the main thread was when Ctrl-C raised KeyboardInterrupt
    pool_created,   \* a ThreadPoolExecutor was constructed
    output,         \* the output file: [written, content]
    exit_code,      \* the process's exit status, -1 while running
    run,            \* 1, or 2 for the second of two runs on the same input
    prev,           \* the first run's outcome, once a second run was started
    sleeps,         \* the time.sleep calls made: how many of each kind, and how long (ms)
    web             \* the web application: the request being served and its handler's state

vars == <<args, source, det, client, pc, videos, result, video_data,
          failed_videos, st, calls, fut, raised, interrupted, pool_created,
          output, exit_code, run, prev, sleeps, web>>

Items == 1..MaxVideos

\* ------------------------------------------------------------ url_resolver

\* What one call of get_direct_url can return: (None, None), or a
\* (direct_url, format_info) pair whose url may be missing and whose
\* 'filesize' is a number or None.
Sizes == {NoneSize, 2 * KiB}
Outcomes ==
    {[url |-> FALSE, info |-> FALSE, filesize |-> 0]}
    \cup [url : BOOLEAN, info : {TRUE}, filesize : Sizes]

RECURSIVE UnitOf(_, _)
UnitOf(size, units) ==
    IF units = <<>> THEN "TB"
    ELSE IF size < KiB THEN Head(units)
    ELSE UnitOf(size \div KiB, Tail(units))

\* format_filesize: "Unknown" for 0, otherwise the unit the loop stops at
\* (the digits are not modelled); None cannot be compared with 1024.0 and
\* raises TypeError.
format_filesize(size_bytes) ==
    IF size_bytes = NoneSize THEN "TypeError"
    ELSE IF size_bytes = 0 THEN "Unknown"
    ELSE UnitOf(size_bytes, <<"B", "KB", "MB", "GB">>)

\* The answers the client may give for video i.
Answers(i) == IF det THEN {client[i]} ELSE Outcomes


\* ------------------------------------------------------------------ state

WorkerChoices == {0, 1, 2, WorkersCap + 1}
Urls == {"ok", "noscheme", "nolist"}
DelayChoices == {300, DefaultDelay}

\* The command lines: --workers is kept as typed beside args.workers, which
\* main() overwrites.
ArgLines(urls, workers, delays, retries) ==
    {[playlist_url |-> u, use_async |-> a, workers |-> w, argv_workers |-> w,
      delay |-> d, retries |-> r] :
        u \in urls, a \in BOOLEAN, w \in workers, d \in delays, r \in retries}

NoSleeps == [delays |-> 0, delay_ms |-> {}, backoffs |-> 0, backoff_ms |-> {}]

NoResult == [kind |-> "none", filesize_str |-> ""]

NewResult ==
    [success |-> FALSE, output_file |-> FALSE, total_videos |-> 0,
     successful |-> 0, failed |-> 0, errors |-> <<>>]

NoPrev == [ran |-> FALSE, use_async |-> FALSE, returned |-> FALSE,
           result |-> NewResult, ok |-> {}, ko |-> {}]

\* The state a run of main() starts in.
Fresh ==
    /\ pc = "main"
    /\ videos = <<>>
    /\ result = NewResult
    /\ video_data = <<>>
    /\ failed_videos = <<>>
    /\ st = [i \in Items |-> "new"]
    /\ calls = [i \in Items |-> 0]
    /\ fut = [i \in Items |-> NoResult]
    /\ raised = "none"
    /\ interrupted = "no"
    /\ pool_created = FALSE
    /\ output = [written |-> FALSE, content |-> <<>>]
    /\ exit_code = -1
    /\ sleeps = NoSleeps

\* ------------------------------------------------------ webapp: the state

Selected == 1..MaxSelected

NoRaise == [kind |-> "none", status_code |-> 0, detail |-> <<>>]
NoBody == [total_videos |-> 0, total_successful |-> 0, total_failed |-> 0,
           successful |-> <<>>, failed_videos |-> <<>>]

\* No request is being served.  A request has an endpoint; for
\* /api/fetch-playlist what the metadata source does (meta), for
\* /api/generate-urls the number of videos in request.videos (video k of
\* the request has id k and title k) and, per video, whether get_direct_url
\* returns a URL for it.  The handler has a position (pc), the jobs given
\* to its pool, the calls of get_direct_url made, the results list, the
\* exception raised inside its try block, and the response.
NoRequest ==
    [endpoint |-> "none", pc |-> "idle",
     meta |-> [raises |-> FALSE, entries |-> 0],
     videos |-> 0,
     answers |-> [k \in Selected |-> FALSE],
     job |-> [k \in Selected |-> "new"],
     calls |-> [k \in Selected |-> 0],
     results |-> <<>>,
     raised |-> NoRaise,
     status_code |-> 0, detail |-> <<>>, body |-> NoBody, file |-> FALSE]

Sources ==
    {[raises |-> TRUE, entries |-> 0]}
    \cup [raises : {FALSE}, entries : 0..MaxVideos]

Init ==
    /\ args \in ArgLines(Urls, WorkerChoices, DelayChoices, 0..MaxRetries)
    /\ source \in Sources
    /\ det = FALSE
    /\ client = [i \in Items |-> [url |-> FALSE, info |-> FALSE, filesize |-> 0]]
    /\ run = 1
    /\ prev = NoPrev
    /\ Fresh
    /\ web = NoRequest

N == Len(videos)
InFlight == {i \in Items : st[i] = "running"}
Queued == {i \in Items : st[i] = "queued"}
Min(S) == CHOOSE x \in S : \A y \in S : x <= y

\* ------------------------------------------------------ playlist_grabber

\* Clamp without the upper limit.
ClampNone(w) == w

\* if args.workers > 20: args.workers = 20
Clamp(w) == IF w > WorkersCap THEN WorkersCap ELSE w

\* if args.delay < 0.5: args.delay = 0.5
ValidDelay(d) == IF d < MinDelay THEN MinDelay ELSE d

\* main(): the checks on the parsed arguments, before any processing.
ValidateArgs ==
    /\ pc = "main"
    /\ IF args.playlist_url # "ok" \/ args.workers < 1
       THEN /\ pc' = "exited"
            /\ exit_code' = 1
            /\ args' = args
       ELSE /\ pc' = "title"
            /\ exit_code' = exit_code
            /\ args' = [args EXCEPT !.workers = Clamp(args.workers),
                                    !.delay = ValidDelay(args.delay)]
    /\ UNCHANGED <<web, source, det, client, videos, result, video_data,
                   failed_videos, st, calls, fut, raised, interrupted,
                   pool_created, output, run, prev, sleeps>>

\* ExitCodeFor with a bare `except:' as the last handler: it catches the
\* SystemExit of sys.exit(0) and exits 1.
ExitCodeForBareExcept(returned, success, exc) ==
    IF returned THEN 1
    ELSE IF exc = "KeyboardInterrupt" THEN 130
    ELSE 1

\* sys.exit raises SystemExit, which `except Exception' does not catch: the
\* status chosen after process_playlist returned stands.
ExitCodeFor(returned, success, exc) ==
    IF returned THEN (IF success THEN 0 ELSE 1)
    ELSE IF exc = "KeyboardInterrupt" THEN 130
    ELSE 1

\* main(): the exit status after process_playlist returned or raised.
MainExit ==
    /\ pc \in {"returned", "raised"}
    /\ pc' = "exited"
    /\ exit_code' = ExitCodeFor(pc = "returned", result.success, raised)
    /\ UNCHANGED <<web, args, source, det, client, videos, result, video_data,
                   failed_videos, st, calls, fut, raised, interrupted,
                   pool_created, output, run, prev, sleeps>>

\* ------------------------------------------------- step 1: the metadata

\* get_playlist_title never raises: its bare except returns a default.
FetchTitle ==
    /\ pc = "title"
    /\ pc' = "videos"
    /\ UNCHANGED <<web, args, source, det, client, videos, result, video_data,
                   failed_videos, st, calls, fut, raised, interrupted,
                   pool_created, output, exit_code, run, prev, sleeps>>

WithError(r, msg) == [r EXCEPT !.errors = Append(@, msg)]

\* FetchVideos without the `if not videos' check.
FetchVideosNoEmptyCheck ==
    /\ pc = "videos"
    /\ IF source.raises
       THEN /\ result' = WithError(result, "Failed to fetch playlist")
            /\ pc' = "returned"
            /\ UNCHANGED <<videos, pool_created>>
       ELSE /\ videos' = [i \in 1..source.entries |-> i]
            /\ result' = [result EXCEPT !.total_videos = source.entries]
            /\ pc' = IF args.use_async THEN "submit" ELSE "loop"
            /\ pool_created' = args.use_async
    /\ UNCHANGED <<web, args, source, det, client, video_data, failed_videos, st,
                   calls, fut, raised, interrupted, output, exit_code, run, prev, sleeps>>

\* FetchVideos without the try/except around the metadata calls.
FetchVideosPropagates ==
    /\ pc = "videos"
    /\ IF source.raises
       THEN /\ raised' = "Exception"
            /\ pc' = "raised"
            /\ UNCHANGED <<videos, result, pool_created>>
       ELSE /\ videos' = [i \in 1..source.entries |-> i]
            /\ UNCHANGED raised
            /\ IF source.entries = 0
               THEN /\ result' = WithError(result, "No videos found in playlist")
                    /\ pc' = "returned"
                    /\ UNCHANGED pool_created
               ELSE /\ result' = [result EXCEPT !.total_videos = source.entries]
                    /\ pc' = IF args.use_async THEN "submit" ELSE "loop"
                    /\ pool_created' = args.use_async
    /\ UNCHANGED <<web, args, source, det, client, video_data, failed_videos, st,
                   calls, fut, interrupted, output, exit_code, run, prev, sleeps>>

\* get_playlist_videos, and what process_playlist does with its answer.
FetchVideos ==
    /\ pc = "videos"
    /\ IF source.raises
       THEN /\ result' = WithError(result, "Failed to fetch playlist")
            /\ pc' = "returned"
            /\ UNCHANGED <<videos, pool_created>>
       ELSE /\ videos' = [i \in 1..source.entries |-> i]
            /\ IF source.entries = 0
               THEN /\ result' = WithError(result, "No videos found in playlist")
                    /\ pc' = "returned"
                    /\ UNCHANGED pool_created
               ELSE /\ result' = [result EXCEPT !.total_videos = source.entries]
                    /\ pc' = IF args.use_async THEN "submit" ELSE "loop"
                    /\ pool_created' = args.use_async
    /\ UNCHANGED <<web, args, source, det, client, video_data, failed_videos, st,
                   calls, fut, raised, interrupted, output, exit_code, run, prev, sleeps>>


\* ------------------------------------------- step 2, Sequential (orchestrator)

Entry(i, fs) == [title |-> i, url |-> i, filesize_str |-> fs]

\* direct_url is still None after the retry loop.
Failure == [kind |-> "fail", filesize_str |-> ""]

\* The loop was left with a direct_url: format_info gets its filesize_str,
\* unless format_filesize raises.
SeqResolved(o) ==
    IF format_filesize(o.filesize) = "TypeError"
    THEN [kind |-> "error", filesize_str |-> ""]
    ELSE [kind |-> "ok", filesize_str |-> format_filesize(o.filesize)]

\* for attempt in range(max_retries): is another call made after `made'
\* calls that returned no URL?
SeqRetries(made) == made < args.retries

\* SeqRecord with video_data.insert(0, ...) in place of append.
SeqRecordAtFront(i, ok, fs) ==
    IF ok
    THEN /\ video_data' = <<Entry(i, fs)>> \o video_data
         /\ result' = [result EXCEPT !.successful = @ + 1]
         /\ UNCHANGED failed_videos
    ELSE /\ failed_videos' = Append(failed_videos, i)
         /\ result' = [result EXCEPT !.failed = @ + 1]
         /\ UNCHANGED video_data

\* The branch after the retry loop: one success or one failure is appended.
SeqRecord(i, ok, fs) ==
    IF ok
    THEN /\ video_data' = Append(video_data, Entry(i, fs))
         /\ result' = [result EXCEPT !.successful = @ + 1]
         /\ UNCHANGED failed_videos
    ELSE /\ failed_videos' = Append(failed_videos, i)
         /\ result' = [result EXCEPT !.failed = @ + 1]
         /\ UNCHANGED video_data

\* SeqBackoff sleeping the whole delay.
SeqBackoffFullDelay ==
    [sleeps EXCEPT !.backoffs = @ + 1, !.backoff_ms = @ \cup {args.delay}]

\* time.sleep(delay * 0.5) between two attempts of the retry loop.
SeqBackoff ==
    [sleeps EXCEPT !.backoffs = @ + 1,
                   !.backoff_ms = @ \cup {args.delay \div 2}]

\* SeqPause without `if idx < len(videos)': a delay after every video.
SeqPauseAlways(i) ==
    [sleeps EXCEPT !.delays = @ + 1, !.delay_ms = @ \cup {args.delay}]

\* time.sleep(delay) at the end of the loop body, except for the last video.
SeqPause(i) ==
    IF i < N
    THEN [sleeps EXCEPT !.delays = @ + 1, !.delay_ms = @ \cup {args.delay}]
    ELSE sleeps

\* SeqAfter with the loop bound off by one: the last video is never taken.
SeqAfterSkipsLast(i) == IF i < N - 1 THEN "loop" ELSE "write"

\* After video i was recorded: the loop goes on (after time.sleep(delay)) or
\* ends and step 3 begins.
SeqAfter(i) == IF i < N THEN "loop" ELSE "write"

\* The loop takes the next video and starts its first call; with
\* max_retries <= 0 the retry loop is empty and the video fails at once.
SeqStart(i) ==
    /\ pc = "loop"
    /\ i \in 1..N
    /\ st[i] = "new"
    /\ \A j \in 1..(i - 1) : st[j] = "recorded"
    /\ IF SeqRetries(0)
       THEN /\ st' = [st EXCEPT ![i] = "running"]
            /\ calls' = [calls EXCEPT ![i] = 1]
            /\ UNCHANGED <<pc, fut, result, video_data, failed_videos, sleeps>>
       ELSE /\ st' = [st EXCEPT ![i] = "recorded"]
            /\ fut' = [fut EXCEPT ![i] = Failure]
            /\ SeqRecord(i, FALSE, "")
            /\ pc' = SeqAfter(i)
            /\ sleeps' = SeqPause(i)
            /\ UNCHANGED calls
    /\ UNCHANGED <<web, args, source, det, client, videos, raised, interrupted,
                   pool_created, output, exit_code, run, prev>>

\* A call of get_direct_url returns answer o to the retry loop.
SeqReturn(i, o) ==
    /\ pc = "loop"
    /\ st[i] = "running"
    /\ IF o.url
       THEN /\ fut' = [fut EXCEPT ![i] = SeqResolved(o)]
            /\ UNCHANGED calls
            /\ IF SeqResolved(o).kind = "error"
               THEN /\ raised' = "TypeError"
                    /\ pc' = "raised"
                    /\ st' = [st EXCEPT ![i] = "aborted"]
                    /\ UNCHANGED <<result, video_data, failed_videos, sleeps>>
               ELSE /\ SeqRecord(i, TRUE, SeqResolved(o).filesize_str)
                    /\ st' = [st EXCEPT ![i] = "recorded"]
                    /\ pc' = SeqAfter(i)
                    /\ sleeps' = SeqPause(i)
                    /\ UNCHANGED raised
       ELSE IF SeqRetries(calls[i])
            THEN /\ calls' = [calls EXCEPT ![i] = @ + 1]
                 /\ sleeps' = SeqBackoff
                 /\ UNCHANGED <<pc, st, fut, raised, result, video_data,
                                failed_videos>>
            ELSE /\ SeqRecord(i, FALSE, "")
                 /\ fut' = [fut EXCEPT ![i] = Failure]
                 /\ st' = [st EXCEPT ![i] = "recorded"]
                 /\ pc' = SeqAfter(i)
                 /\ sleeps' = SeqPause(i)
                 /\ UNCHANGED <<calls, raised>>
    /\ UNCHANGED <<web, args, source, det, client, videos, interrupted,
                   pool_created, output, exit_code, run, prev>>

\* --------------------------------------- step 2, Bounded (orchestrator_async)

\* executor.submit(_resolve_video_url, video, ...), in playlist order.
Submit(i) ==
    /\ pc = "submit"
    /\ i \in 1..N
    /\ st[i] = "new"
    /\ \A j \in 1..(i - 1) : st[j] # "new"
    /\ st' = [st EXCEPT ![i] = "queued"]
    /\ pc' = IF i < N THEN "submit" ELSE "collect"
    /\ UNCHANGED <<web, args, source, det, client, videos, result, video_data,
                   failed_videos, calls, fut, raised, interrupted, pool_created,
                   output, exit_code, run, prev, sleeps>>

\* WorkerFree for a pool that keeps one of its threads idle.
WorkerFreeOffByOne == Cardinality(InFlight) < args.workers - 1

\* WorkerFree for a pool that starts a thread per submitted item.
WorkerFreeAlways == TRUE

\* ThreadPoolExecutor(max_workers): a worker thread exists for a queued item
\* only while fewer than max_workers items are being run.
WorkerFree == Cardinality(InFlight) < args.workers

\* AsyncRetries off by one: range(max_retries + 1).
AsyncRetriesOneMore(made) == made <= args.retries

AsyncRetries(made) == made < args.retries

\* What _resolve_video_url leaves in its future after the retry loop.
Resolved(o) ==
    IF format_filesize(o.filesize) = "TypeError"
    THEN [kind |-> "error", filesize_str |-> ""]
    ELSE [kind |-> "ok", filesize_str |-> format_filesize(o.filesize)]

\* StartWork launching all the attempts for the item at once.
StartWorkAllAttempts(i) ==
    /\ pool_created
    /\ Queued # {}
    /\ i = Min(Queued)
    /\ WorkerFree
    /\ IF AsyncRetries(0)
       THEN /\ st' = [st EXCEPT ![i] = "running"]
            /\ calls' = [calls EXCEPT ![i] = args.retries]
            /\ UNCHANGED fut
       ELSE /\ st' = [st EXCEPT ![i] = "done"]
            /\ fut' = [fut EXCEPT ![i] = Failure]
            /\ UNCHANGED calls
    /\ UNCHANGED <<web, args, source, det, client, pc, videos, result, video_data,
                   failed_videos, raised, interrupted, pool_created, output,
                   exit_code, run, prev, sleeps>>

\* A worker thread takes the oldest queued item and enters
\* _resolve_video_url: the first call starts, or, with max_retries <= 0,
\* the function returns a failure at once.
StartWork(i) ==
    /\ pool_created
    /\ Queued # {}
    /\ i = Min(Queued)
    /\ WorkerFree
    /\ IF AsyncRetries(0)
       THEN /\ st' = [st EXCEPT ![i] = "running"]
            /\ calls' = [calls EXCEPT ![i] = 1]
            /\ UNCHANGED fut
       ELSE /\ st' = [st EXCEPT ![i] = "done"]
            /\ fut' = [fut EXCEPT ![i] = Failure]
            /\ UNCHANGED calls
    /\ UNCHANGED <<web, args, source, det, client, pc, videos, result, video_data,
                   failed_videos, raised, interrupted, pool_created, output,
                   exit_code, run, prev, sleeps>>

\* time.sleep(0.5) between two attempts in _resolve_video_url.
AsyncBackoff ==
    [sleeps EXCEPT !.backoffs = @ + 1, !.backoff_ms = @ \cup {RetryPause}]

\* A call of get_direct_url returns answer o inside _resolve_video_url.
WorkReturn(i, o) ==
    /\ pool_created
    /\ st[i] = "running"
    /\ IF o.url
       THEN /\ st' = [st EXCEPT ![i] = "done"]
            /\ fut' = [fut EXCEPT ![i] = Resolved(o)]
            /\ UNCHANGED <<calls, sleeps>>
       ELSE IF AsyncRetries(calls[i])
            THEN /\ calls' = [calls EXCEPT ![i] = @ + 1]
                 /\ sleeps' = AsyncBackoff
                 /\ UNCHANGED <<st, fut>>
            ELSE /\ st' = [st EXCEPT ![i] = "done"]
                 /\ fut' = [fut EXCEPT ![i] = Failure]
                 /\ UNCHANGED <<calls, sleeps>>
    /\ UNCHANGED <<web, args, source, det, client, pc, videos, result, video_data,
                   failed_videos, raised, interrupted, pool_created, output,
                   exit_code, run, prev>>

\* AsyncRecord with the failure counter forgotten.
AsyncRecordLosesFailure(i, f) ==
    IF f.kind = "ok"
    THEN /\ video_data' = Append(video_data, Entry(i, f.filesize_str))
         /\ result' = [result EXCEPT !.successful = @ + 1]
         /\ UNCHANGED failed_videos
    ELSE /\ failed_videos' = Append(failed_videos, i)
         /\ UNCHANGED <<result, video_data>>

\* AsyncRecord whose counter update is lost while a worker is running.
AsyncRecordLostUpdate(i, f) ==
    IF f.kind = "ok"
    THEN /\ video_data' = Append(video_data, Entry(i, f.filesize_str))
         /\ result' = [result EXCEPT !.successful =
                                       IF InFlight # {} THEN @ ELSE @ + 1]
         /\ UNCHANGED failed_videos
    ELSE /\ failed_videos' = Append(failed_videos, i)
         /\ result' = [result EXCEPT !.failed = @ + 1]
         /\ UNCHANGED video_data

\* AsyncRecord pairing the k-th finished future with the k-th video of the
\* playlist.
AsyncRecordByArrival(i, f) ==
    LET k == Len(video_data) + Len(failed_videos) + 1 IN
    IF f.kind = "ok"
    THEN /\ video_data' = Append(video_data, Entry(k, f.filesize_str))
         /\ result' = [result EXCEPT !.successful = @ + 1]
         /\ UNCHANGED failed_videos
    ELSE /\ failed_videos' = Append(failed_videos, k)
         /\ result' = [result EXCEPT !.failed = @ + 1]
         /\ UNCHANGED video_data

\* The body of the as_completed loop for a future that did not raise.
AsyncRecord(i, f) ==
    IF f.kind = "ok"
    THEN /\ video_data' = Append(video_data, Entry(i, f.filesize_str))
         /\ result' = [result EXCEPT !.successful = @ + 1]
         /\ UNCHANGED failed_videos
    ELSE /\ failed_videos' = Append(failed_videos, i)
         /\ result' = [result EXCEPT !.failed = @ + 1]
         /\ UNCHANGED video_data

\* Consume with the Sequential loop's time.sleep(delay) after each future.
ConsumeThenDelay(i) ==
    /\ pc = "collect"
    /\ st[i] = "done"
    /\ IF fut[i].kind = "error"
       THEN /\ raised' = "TypeError"
            /\ pc' = "shutdown"
            /\ UNCHANGED <<st, result, video_data, failed_videos, sleeps>>
       ELSE /\ AsyncRecord(i, fut[i])
            /\ st' = [st EXCEPT ![i] = "recorded"]
            /\ pc' = IF \A j \in 1..N : j # i => st[j] = "recorded"
                     THEN "write" ELSE "collect"
            /\ sleeps' = SeqPause(i)
            /\ UNCHANGED raised
    /\ UNCHANGED <<web, args, source, det, client, videos, calls, fut, interrupted,
                   pool_created, output, exit_code, run, prev>>

\* Consume leaving the as_completed loop after the first recorded future.
ConsumeStopsEarly(i) ==
    /\ pc = "collect"
    /\ st[i] = "done"
    /\ IF fut[i].kind = "error"
       THEN /\ raised' = "TypeError"
            /\ pc' = "shutdown"
            /\ UNCHANGED <<st, result, video_data, failed_videos>>
       ELSE /\ AsyncRecord(i, fut[i])
            /\ st' = [st EXCEPT ![i] = "recorded"]
            /\ pc' = "write"
            /\ UNCHANGED raised
    /\ UNCHANGED <<web, args, source, det, client, videos, calls, fut, interrupted,
                   pool_created, output, exit_code, run, prev, sleeps>>

\* Consume for an as_completed that yields a finished future again.
ConsumeYieldsAgain(i) ==
    /\ pc = "collect"
    /\ st[i] = "done"
    /\ IF fut[i].kind = "error"
       THEN /\ raised' = "TypeError"
            /\ pc' = "shutdown"
            /\ UNCHANGED <<st, result, video_data, failed_videos>>
       ELSE /\ AsyncRecord(i, fut[i])
            /\ pc' = "collect"
            /\ UNCHANGED <<st, raised>>
    /\ UNCHANGED <<web, args, source, det, client, videos, calls, fut, interrupted,
                   pool_created, output, exit_code, run, prev, sleeps>>

\* as_completed yields a finished future; future.result() re-raises what the
\* worker raised, and the with-block is left by that exception.
Consume(i) ==
    /\ pc = "collect"
    /\ st[i] = "done"
    /\ IF fut[i].kind = "error"
       THEN /\ raised' = "TypeError"
            /\ pc' = "shutdown"
            /\ UNCHANGED <<st, result, video_data, failed_videos>>
       ELSE /\ AsyncRecord(i, fut[i])
            /\ st' = [st EXCEPT ![i] = "recorded"]
            /\ pc' = IF \A j \in 1..N : j # i => st[j] = "recorded"
                     THEN "write" ELSE "collect"
            /\ UNCHANGED raised
    /\ UNCHANGED <<web, args, source, det, client, videos, calls, fut, interrupted,
                   pool_created, output, exit_code, run, prev, sleeps>>

\* Shutdown for a process_playlist that catches the exception at the end of
\* the with-block and goes on to step 3 with what was recorded.
ShutdownThenWrite ==
    /\ pc = "shutdown"
    /\ Queued = {}
    /\ InFlight = {}
    /\ pc' = "write"
    /\ UNCHANGED <<web, args, source, det, client, videos, result, video_data,
                   failed_videos, st, calls, fut, raised, interrupted,
                   pool_created, output, exit_code, run, prev, sleeps>>

\* ThreadPoolExecutor.__exit__ is shutdown(wait=True): the exception leaves
\* the with-block only when every submitted item has been run.
Shutdown ==
    /\ pc = "shutdown"
    /\ Queued = {}
    /\ InFlight = {}
    /\ pc' = "raised"
    /\ UNCHANGED <<web, args, source, det, client, videos, result, video_data,
                   failed_videos, st, calls, fut, raised, interrupted,
                   pool_created, output, exit_code, run, prev, sleeps>>


\* --------------------------------------------------- step 3: the output file

\* WriteOutput without the `if not video_data' return: success is set
\* whenever the write does not raise.
WriteOutputOptimistic ==
    /\ pc = "write"
    /\ \E written \in BOOLEAN :
         IF written
         THEN /\ output' = [written |-> TRUE, content |-> video_data]
              /\ result' = [result EXCEPT !.output_file = TRUE, !.success = TRUE]
         ELSE /\ result' = WithError(result, "Failed to write output file")
              /\ UNCHANGED output
    /\ pc' = "returned"
    /\ UNCHANGED <<web, args, source, det, client, videos, video_data,
                   failed_videos, st, calls, fut, raised, interrupted,
                   pool_created, exit_code, run, prev, sleeps>>

\* WriteOutput with result['output_file'] assigned before write_to_file is
\* called.
WriteOutputPathFirst ==
    /\ pc = "write"
    /\ IF video_data = <<>>
       THEN /\ result' = WithError(result, "No URLs were successfully resolved")
            /\ UNCHANGED output
       ELSE \E written \in BOOLEAN :
              IF written
              THEN /\ output' = [written |-> TRUE, content |-> video_data]
                   /\ result' = [result EXCEPT !.output_file = TRUE,
                                               !.success = TRUE]
              ELSE /\ result' = WithError([result EXCEPT !.output_file = TRUE],
                                          "Failed to write output file")
                   /\ UNCHANGED output
    /\ pc' = "returned"
    /\ UNCHANGED <<web, args, source, det, client, videos, video_data,
                   failed_videos, st, calls, fut, raised, interrupted,
                   pool_created, exit_code, run, prev, sleeps>>

\* write_to_file writes the entries of video_data in order, or raises.
WriteOutput ==
    /\ pc = "write"
    /\ IF video_data = <<>>
       THEN /\ result' = WithError(result, "No URLs were successfully resolved")
            /\ UNCHANGED output
       ELSE \E written \in BOOLEAN :
              IF written
              THEN /\ output' = [written |-> TRUE, content |-> video_data]
                   /\ result' = [result EXCEPT !.output_file = TRUE,
                                               !.success = TRUE]
              ELSE /\ result' = WithError(result, "Failed to write output file")
                   /\ UNCHANGED output
    /\ pc' = "returned"
    /\ UNCHANGED <<web, args, source, det, client, videos, video_data,
                   failed_videos, st, calls, fut, raised, interrupted,
                   pool_created, exit_code, run, prev, sleeps>>

\* ------------------------------------------------------------ the user

\* Ctrl-C while the main thread is inside get_playlist_title: the bare
\* except there swallows the KeyboardInterrupt, the default title is
\* returned and processing goes on as if nothing had happened.
InterruptSwallowed ==
    /\ pc = "title"
    /\ pc' = "videos"
    /\ UNCHANGED <<web, args, source, det, client, videos, result, video_data,
                   failed_videos, st, calls, fut, raised, interrupted,
                   pool_created, output, exit_code, run, prev, sleeps>>

InPool == pc \in {"submit", "collect"}

\* Ctrl-C anywhere else in process_playlist: KeyboardInterrupt is raised in
\* the main thread.  Nothing in process_playlist catches it; inside the
\* with-block of the pool it first runs the pool's shutdown(wait=True).
Interrupt ==
    /\ pc \in {"title", "videos", "loop", "submit", "collect", "write"}
    /\ interrupted = "no"
    /\ interrupted' = pc
    /\ raised' = "KeyboardInterrupt"
    /\ pc' = IF InPool THEN "shutdown" ELSE "raised"
    /\ st' = IF InPool THEN st
             ELSE [i \in Items |-> IF st[i] = "running" THEN "aborted" ELSE st[i]]
    /\ UNCHANGED <<web, args, source, det, client, videos, result, video_data,
                   failed_videos, calls, fut, pool_created, output, exit_code,
                   run, prev, sleeps>>

\* ------------------------------------------------------------ the system

Next ==
    \/ ValidateArgs
    \/ FetchTitle
    \/ FetchVideos
    \/ \E i \in Items : SeqStart(i)
    \/ \E i \in Items : \E o \in Answers(i) : SeqReturn(i, o)
    \/ \E i \in Items : Submit(i)
    \/ \E i \in Items : StartWork(i)
    \/ \E i \in Items : \E o \in Answers(i) : WorkReturn(i, o)
    \/ \E i \in Items : Consume(i)
    \/ Shutdown
    \/ WriteOutput
    \/ InterruptSwallowed
    \/ Interrupt
    \/ MainExit

Spec == Init /\ [][Next]_vars


ArgsValid == args.playlist_url = "ok" /\ args.workers >= 1

\* process_playlist has returned its result dictionary to main().
ReportReturned ==
    \/ pc = "returned"
    \/ pc = "exited" /\ raised = "none" /\ ArgsValid

\* --------------------------------------- two runs on the same playlist

Range(f) == {f[k] : k \in DOMAIN f}
Titles(data) == {data[k].title : k \in DOMAIN data}

\* A resolution client whose answer depends on the id only.
DetAnswers ==
    {[url |-> FALSE, info |-> FALSE, filesize |-> 0]}
    \cup [url : {TRUE}, info : {TRUE}, filesize : Sizes]

\* main() is run a second time, in either mode, on the same playlist with
\* the same client, max_retries and workers; the report the first run
\* returned, if it returned one, is kept.
Rerun(mode) ==
    /\ pc = "exited"
    /\ run = 1
    /\ run' = 2
    /\ prev' = IF ReportReturned
               THEN [ran |-> TRUE, use_async |-> args.use_async,
                     returned |-> TRUE, result |-> result,
                     ok |-> Titles(video_data), ko |-> Range(failed_videos)]
               ELSE [NoPrev EXCEPT !.ran = TRUE, !.use_async = args.use_async]
    /\ args' = [args EXCEPT !.use_async = mode]
    /\ pc' = "main"
    /\ videos' = <<>>
    /\ result' = NewResult
    /\ video_data' = <<>>
    /\ failed_videos' = <<>>
    /\ st' = [i \in Items |-> "new"]
    /\ calls' = [i \in Items |-> 0]
    /\ fut' = [i \in Items |-> NoResult]
    /\ raised' = "none"
    /\ interrupted' = "no"
    /\ pool_created' = FALSE
    /\ output' = [written |-> FALSE, content |-> <<>>]
    /\ exit_code' = -1
    /\ sleeps' = NoSleeps
    /\ UNCHANGED <<web, source, det, client>>

InitPair ==
    /\ args \in ArgLines({"ok"}, WorkerChoices \ {0}, {DefaultDelay},
                        0..MaxRetries)
    /\ source \in Sources
    /\ det = TRUE
    /\ client \in [Items -> DetAnswers]
    /\ \A i \in Items : i > source.entries => ~client[i].url
    /\ run = 1
    /\ prev = NoPrev
    /\ Fresh
    /\ web = NoRequest

NextPair ==
    \/ Next
    \/ \E mode \in BOOLEAN : Rerun(mode)

SpecPair == InitPair /\ [][NextPair]_vars

\* ------------------------------------------- Bounded mode, fair scheduling

\* Pools smaller than the playlist, so that items wait for a worker.
SmallPools == {1, 2}

InitBounded ==
    /\ args \in {a \in ArgLines({"ok"}, SmallPools, {DefaultDelay},
                                 0..MaxRetries) : a.use_async}
    /\ source \in Sources
    /\ det = FALSE
    /\ client = [i \in Items |-> [url |-> FALSE, info |-> FALSE, filesize |-> 0]]
    /\ run = 1
    /\ prev = NoPrev
    /\ Fresh
    /\ web = NoRequest

\* The steps of the main thread in a Bounded run.
MainThread ==
    \/ ValidateArgs
    \/ FetchTitle
    \/ FetchVideos
    \/ \E i \in Items : Submit(i)
    \/ \E i \in Items : Consume(i)
    \/ Shutdown
    \/ WriteOutput
    \/ MainExit

\* A worker thread of the pool takes the next queued item.
PoolAdmits == \E i \in Items : StartWork(i)

\* The call in flight for video i returns.
CallReturns(i) == \E o \in Answers(i) : WorkReturn(i, o)

NextBounded ==
    \/ MainThread
    \/ PoolAdmits
    \/ \E i \in Items : CallReturns(i)
    \/ InterruptSwallowed
    \/ Interrupt

\* Every thread that can take a step eventually does, and every call of
\* get_direct_url returns; the user's Ctrl-C is under no obligation.
FairThreads ==
    /\ WF_vars(MainThread)
    /\ WF_vars(PoolAdmits)
    /\ \A i \in Items : WF_vars(CallReturns(i))

SpecLive == InitBounded /\ [][NextBounded]_vars /\ FairThreads

\* ------------------------------------------------------ webapp/main.py

cli == <<args, source, det, client, pc, videos, result, video_data,
         failed_videos, st, calls, fut, raised, interrupted, pool_created,
         output, exit_code, run, prev, sleeps>>

\* The answers of get_direct_url repeat with period two from the third
\* video on: all succeed, all fail, or they alternate.
AnswerPatterns ==
    {f \in [Selected -> BOOLEAN] : \A k \in Selected : k > 2 => f[k] = f[k - 2]}

Requests ==
    {[NoRequest EXCEPT !.endpoint = "fetch", !.pc = "handler", !.meta = m] :
        m \in Sources}
    \cup {[NoRequest EXCEPT !.endpoint = "generate", !.pc = "handler",
                            !.videos = n, !.answers = f] :
             n \in 0..MaxSelected, f \in AnswerPatterns}

\* One request arrives at the application; the command line is not run.
InitWeb ==
    /\ web \in Requests
    /\ args = [playlist_url |-> "ok", use_async |-> FALSE, workers |-> 1,
               argv_workers |-> 1, delay |-> DefaultDelay, retries |-> 0]
    /\ source = [raises |-> TRUE, entries |-> 0]
    /\ det = FALSE
    /\ client = [i \in Items |-> [url |-> FALSE, info |-> FALSE, filesize |-> 0]]
    /\ run = 1
    /\ prev = NoPrev
    /\ Fresh

\* `raise' inside the try block of a handler: control goes to its except
\* clauses.
WebRaise(w, kind, code, msg) ==
    [w EXCEPT !.raised = [kind |-> kind, status_code |-> code, detail |-> <<msg>>],
              !.pc = "except"]

\* The classes `except Exception' catches: fastapi.HTTPException derives
\* from Exception like any other error raised in the handlers.
ExceptionClasses == {"Exception", "HTTPException", "OSError"}

\* except Exception as e: raise HTTPException(status_code=500, ...), the
\* only except clause of both handlers.
WebExcept ==
    /\ web.pc = "except"
    /\ web.raised.kind \in ExceptionClasses
    /\ web' = [web EXCEPT
                 !.status_code = 500,
                 !.detail = <<IF web.endpoint = "fetch"
                              THEN "Failed to fetch playlist"
                              ELSE "Failed to generate URLs">> \o web.raised.detail,
                 !.pc = "done"]
    /\ UNCHANGED cli

\* POST /api/fetch-playlist: the try block.
fetch_playlist ==
    /\ web.endpoint = "fetch"
    /\ web.pc = "handler"
    /\ web' = IF web.meta.raises
              THEN WebRaise(web, "Exception", 0, "Failed to fetch playlist videos")
              ELSE IF web.meta.entries = 0
              THEN WebRaise(web, "HTTPException", 404, "No videos found in playlist")
              ELSE [web EXCEPT !.status_code = 200,
                               !.body.total_videos = web.meta.entries,
                               !.pc = "done"]
    /\ UNCHANGED cli

\* POST /api/generate-urls: the check of request.videos, then the pool.
generate_urls ==
    /\ web.endpoint = "generate"
    /\ web.pc = "handler"
    /\ web' = IF web.videos = 0
              THEN WebRaise(web, "HTTPException", 400, "No videos selected")
              ELSE [web EXCEPT !.pc = "submit"]
    /\ UNCHANGED cli

WebQueued == {k \in Selected : web.job[k] = "queued"}
WebInFlight == {k \in Selected : web.job[k] = "running"}

\* futures = [executor.submit(resolve_video_url, video) for video in ...]
WebSubmit(k) ==
    /\ web.pc = "submit"
    /\ k \in 1..web.videos
    /\ web.job[k] = "new"
    /\ \A j \in 1..(k - 1) : web.job[j] # "new"
    /\ web' = [web EXCEPT !.job[k] = "queued",
                          !.pc = IF k = web.videos THEN "collect" ELSE "submit"]
    /\ UNCHANGED cli

\* A thread of the pool takes the oldest queued video: resolve_video_url
\* calls get_direct_url.
resolve_video_url(k) ==
    /\ web.pc \in {"submit", "collect"}
    /\ WebQueued # {}
    /\ k = Min(WebQueued)
    /\ Cardinality(WebInFlight) < WebWorkers
    /\ web' = [web EXCEPT !.job[k] = "running", !.calls[k] = @ + 1]
    /\ UNCHANGED cli

\* WebCallReturns with one more attempt after a call without a URL.
WebCallReturnsRetry(k) ==
    /\ web.job[k] = "running"
    /\ web' = IF web.answers[k] THEN [web EXCEPT !.job[k] = "ok"]
              ELSE IF web.calls[k] < 2 THEN [web EXCEPT !.calls[k] = @ + 1]
              ELSE [web EXCEPT !.job[k] = "fail"]
    /\ UNCHANGED cli

\* get_direct_url returns; resolve_video_url returns its dictionary with
\* 'success' True or False, without another attempt.
WebCallReturns(k) ==
    /\ web.job[k] = "running"
    /\ web' = [web EXCEPT !.job[k] = IF web.answers[k] THEN "ok" ELSE "fail"]
    /\ UNCHANGED cli

\* results = [future.result() for future in futures]: the futures are
\* waited for in the order of the request; after the last one the pool is
\* shut down.
WebCollect ==
    /\ web.pc = "collect"
    /\ LET k == Len(web.results) + 1 IN
         /\ k <= web.videos
         /\ web.job[k] \in {"ok", "fail"}
         /\ web' = [web EXCEPT
                      !.results = Append(@, [id |-> k, success |-> web.job[k] = "ok"]),
                      !.pc = IF k = web.videos THEN "respond" ELSE "collect"]
    /\ UNCHANGED cli

IsSuccess(r) == r.success
IsFailure(r) == ~r.success
Ids(rs) == [j \in DOMAIN rs |-> rs[j].id]

\* The rest of the try block: the two lists, the 500 for no success, the
\* temporary file (open/write may raise) and the JSON response.
WebRespond ==
    /\ web.pc = "respond"
    /\ LET successful == SelectSeq(web.results, IsSuccess)
           failed == SelectSeq(web.results, IsFailure)
       IN IF successful = <<>>
          THEN web' = WebRaise(web, "HTTPException", 500, "Failed to resolve any URLs")
          ELSE \E written \in BOOLEAN :
                 web' = IF written
                        THEN [web EXCEPT
                               !.status_code = 200,
                               !.file = TRUE,
                               !.body = [NoBody EXCEPT
                                   !.total_successful = Len(successful),
                                   !.total_failed = Len(failed),
                                   !.successful = Ids(successful),
                                   !.failed_videos = Ids(failed)],
                               !.pc = "done"]
                        ELSE WebRaise(web, "OSError", 0, "write failed")
    /\ UNCHANGED cli

NextWeb ==
    \/ fetch_playlist
    \/ generate_urls
    \/ \E k \in Selected : WebSubmit(k)
    \/ \E k \in Selected : resolve_video_url(k)
    \/ \E k \in Selected : WebCallReturns(k)
    \/ WebCollect
    \/ WebRespond
    \/ WebExcept

SpecWeb == InitWeb /\ [][NextWeb]_vars

\* ================================================================= claims

\* The resolution phase has run to its end (step 3 is reached).
ResolutionFinished ==
    /\ source.entries > 0
    /\ pc = "write" \/ ReportReturned

\* C1: for a non-empty playlist of N videos, whatever the client answers,
\* once the resolution phase has finished (Sequential or Bounded) the
\* report has total_videos = N and successful + failed = N.
C1_CountsAddUp ==
    ResolutionFinished =>
        /\ result.total_videos = source.entries
        /\ result.successful + result.failed = source.entries
        /\ Len(video_data) + Len(failed_videos) = source.entries

C1_Witness ==
    /\ pc = "write"
    /\ args.use_async
    /\ N = MaxVideos
    /\ result.successful >= 1
    /\ result.failed >= 1

\* C2: get_direct_url is called at most max_retries times per item; no call
\* is in flight for an item once a call for it has returned a URL; and an
\* item is a failure only when all max_retries calls were made (and none
\* of them returned a URL).  Both retry loops.
C2_RetryBound ==
    \A i \in Items :
        /\ calls[i] <= args.retries
        /\ st[i] = "running" => fut[i].kind = "none" /\ calls[i] >= 1
        /\ fut[i].kind = "fail" => calls[i] = args.retries
        /\ fut[i].kind \in {"ok", "error"} => calls[i] >= 1

C2_Witness ==
    /\ args.retries = MaxRetries
    /\ MaxRetries >= 2
    /\ \E i, j \in Items :
         /\ fut[i].kind = "fail" /\ calls[i] = MaxRetries
         /\ fut[j].kind = "ok" /\ calls[j] = 1

\* C3: in Bounded mode the number of items being resolved at the same time
\* never exceeds max_workers, also with more items than workers.
C3_BoundedInFlight ==
    pool_created => Cardinality(InFlight) <= args.workers

C3_Witness ==
    /\ pool_created
    /\ N > args.workers
    /\ Cardinality(InFlight) = args.workers
    /\ Queued # {}

\* C4 (as claimed): process_playlist never raises because of an item,
\* whatever a resolution call returns, a None file size included.
C4_NeverRaisesForItem == raised # "TypeError"

\* C5 (as claimed): in Bounded mode, once KeyboardInterrupt was raised
\* during the resolution phase, an item still waiting in the pool's queue
\* is never started.
PendingStayPending ==
    (interrupted \in {"submit", "collect"}) =>
        (\A i \in Items : st[i] = "queued" => calls'[i] = 0)

C5_NoAdmissionAfterInterrupt == [][PendingStayPending]_vars

\* C6 (as claimed): a run interrupted during the resolution phase ends
\* with a partial report returned to the caller, holding the outcomes that
\* had reached a terminal state.
C6_PartialReportReturned ==
    (pc = "exited" /\ interrupted \in {"loop", "submit", "collect"}) =>
        /\ ReportReturned
        /\ result.successful + result.failed <= source.entries

\* C8: with zero entries from the metadata source nothing is resolved: no
\* call, no pool, no output file, and the returned result has
\* success = False, successful = 0, failed = 0 and the empty-playlist error.
C8_EmptyPlaylistAborts ==
    (~source.raises /\ source.entries = 0) =>
        /\ \A i \in Items : calls[i] = 0 /\ st[i] = "new"
        /\ ~pool_created
        /\ ~output.written
        /\ raised \in {"none", "KeyboardInterrupt"}
        /\ ReportReturned =>
             /\ ~result.success
             /\ result.successful = 0
             /\ result.failed = 0
             /\ result.errors = <<"No videos found in playlist">>

C8_Witness ==
    /\ ~source.raises
    /\ source.entries = 0
    /\ pc = "exited"
    /\ ReportReturned

\* C9: when get_playlist_videos raises, nothing is resolved or written,
\* process_playlist itself does not raise, and the returned result has
\* success = False, total_videos = 0, successful = 0, failed = 0 and a
\* non-empty errors list.
C9_FetchFailureAborts ==
    source.raises =>
        /\ \A i \in Items : calls[i] = 0 /\ st[i] = "new"
        /\ ~pool_created
        /\ ~output.written
        /\ raised \in {"none", "KeyboardInterrupt"}
        /\ (pc = "exited" /\ ArgsValid /\ interrupted = "no") => ReportReturned
        /\ ReportReturned =>
             /\ ~result.success
             /\ result.total_videos = 0
             /\ result.successful = 0
             /\ result.failed = 0
             /\ result.errors # <<>>

C9_Witness ==
    /\ source.raises
    /\ pc = "exited"
    /\ ReportReturned

\* C10 (as claimed): a returned report of a run on a non-empty playlist has
\* success true exactly when successful > 0.
C10_SuccessIffAnyResolved ==
    (ReportReturned /\ source.entries > 0) =>
        (result.success <=> result.successful > 0)

\* C10 (amended): success is true exactly when successful > 0 and
\* write_to_file wrote the output file; so it is false when every item
\* fails, and true for one success among failures once the file is written.
C10_SuccessIffResolvedAndWritten ==
    (ReportReturned /\ source.entries > 0) =>
        /\ result.success <=> (result.successful > 0 /\ output.written)
        /\ result.successful = 0 => ~result.success
        /\ result.success <=> result.output_file

C10_Witness ==
    /\ ReportReturned
    /\ result.success
    /\ result.successful = 1
    /\ result.failed = MaxVideos - 1


\* How often video i stands in the success list and in the failure list.
TimesOk(i) == Cardinality({k \in DOMAIN video_data : video_data[k].title = i})
TimesKo(i) == Cardinality({k \in DOMAIN failed_videos : failed_videos[k] = i})

OneOutcomeAtMost ==
    \A i \in Items :
        /\ TimesOk(i) + TimesKo(i) <= 1
        /\ TimesOk(i) + TimesKo(i) = 1 =>
              st[i] = "recorded" /\ i \in 1..N /\ fut[i].kind \in {"ok", "fail"}
        /\ (ResolutionFinished /\ i \in 1..N) => TimesOk(i) + TimesKo(i) = 1

NoCallAfterOutcome ==
    \A i \in Items :
        TimesOk(i) + TimesKo(i) = 1 => (calls'[i] = calls[i] /\ st'[i] = st[i])

\* C11: in a run, in either mode, no video is recorded twice, none is
\* recorded both as a success and as a failure, every video has exactly one
\* outcome once the resolution phase has finished, and after a video's
\* outcome was recorded no further call is started for it.
C11_OneTerminalOutcome == []OneOutcomeAtMost /\ [][NoCallAfterOutcome]_vars

C11_Witness ==
    /\ args.use_async
    /\ pc = "collect"
    /\ N = MaxVideos
    /\ TimesOk(2) = 1
    /\ TimesKo(1) = 1
    /\ calls[1] = MaxRetries
    /\ st[3] = "running"


\* C12: in Sequential mode one video is resolved at a time, in playlist
\* order: the first call for video i+1 starts only after video i was
\* recorded; one time.sleep(delay) follows the recording of every video but
\* the last, so N videos resolved make N - 1 delays, each of `delay'.
C12_SequentialOrderAndDelays ==
    (~args.use_async /\ pc # "main") =>
        /\ Cardinality(InFlight) <= 1
        /\ \A i \in 1..(N - 1) : st[i + 1] # "new" => st[i] = "recorded"
        /\ sleeps.delays = Cardinality({i \in 1..(N - 1) : st[i] = "recorded"})
        /\ \A i \in 1..(N - 1) : st[i + 1] # "new" => sleeps.delays >= i
        /\ sleeps.delay_ms \subseteq {args.delay}
        /\ ResolutionFinished => sleeps.delays = N - 1

C12_Witness ==
    /\ ~args.use_async
    /\ pc = "exited"
    /\ ReportReturned
    /\ N = MaxVideos
    /\ sleeps.delays = MaxVideos - 1
    /\ sleeps.delay_ms = {MinDelay}
    /\ result.successful = 1


\* C13: a Bounded run started by main() has a pool of 1 to 20 workers: a
\* --workers value below 1 ends main() with exit status 1 before anything is
\* fetched or resolved, and a value above 20 runs with exactly 20.
C13_WorkerCountInRange ==
    args.use_async =>
        /\ pool_created =>
              /\ args.workers \in 1..WorkersCap
              /\ Cardinality(InFlight) <= WorkersCap
        /\ args.argv_workers < 1 =>
              /\ pc \in {"main", "exited"}
              /\ pc = "exited" => exit_code = 1
              /\ ~pool_created
              /\ videos = <<>>
              /\ result = NewResult
              /\ \A i \in Items : calls[i] = 0
        /\ (args.argv_workers > WorkersCap /\ pc \notin {"main", "exited"}) =>
              args.workers = WorkersCap
        /\ (args.argv_workers \in 1..WorkersCap) => args.workers = args.argv_workers

C13_Witness ==
    /\ args.use_async
    /\ args.argv_workers = WorkersCap + 1
    /\ args.workers = WorkersCap
    /\ pool_created
    /\ Cardinality(InFlight) = MaxVideos


RECURSIVE SumOver(_, _)
SumOver(f, S) ==
    IF S = {} THEN 0
    ELSE LET x == CHOOSE y \in S : TRUE IN f[x] + SumOver(f, S \ {x})

\* The attempts after the first, per video: each follows one failed attempt.
Reattempts == [i \in Items |-> IF calls[i] > 0 THEN calls[i] - 1 ELSE 0]

\* One backoff before every re-attempt and nowhere else: none after a
\* success, none after the final attempt.
BackoffOnlyBetweenAttempts == sleeps.backoffs = SumOver(Reattempts, Items)

\* C14 as stated: in both modes every backoff lasts half the configured
\* delay, and there is one per failed attempt that is not the final one.
C14_BackoffHalfDelay ==
    /\ BackoffOnlyBetweenAttempts
    /\ sleeps.backoff_ms \subseteq {args.delay \div 2}

\* C14 (amended): there is one backoff per failed attempt that is not the
\* final one, none after a success or the final attempt, always of the same
\* length: half the configured delay in Sequential mode, 0.5 s whatever the
\* configured delay in Bounded mode.
C14_BackoffPerMode ==
    /\ BackoffOnlyBetweenAttempts
    /\ sleeps.backoff_ms \subseteq
          {IF args.use_async THEN RetryPause ELSE args.delay \div 2}

C14_Witness ==
    /\ args.use_async
    /\ args.delay = DefaultDelay
    /\ pc = "write"
    /\ sleeps.backoffs = MaxVideos
    /\ sleeps.backoff_ms = {RetryPause}
    /\ result.successful = 1


WriteError == "Failed to write output file"

\* Ctrl-C arrived while the videos were being resolved.
InterruptedResolving == interrupted \in {"loop", "submit", "collect"}

\* C16: after a Ctrl-C during the resolution phase, in either mode,
\* write_to_file is not called in that run: step 3 is never entered, no
\* file is written and no write error is reported.
C16_NoWriteAfterInterrupt ==
    InterruptedResolving =>
        /\ pc \in {"shutdown", "raised", "exited"}
        /\ ~output.written
        /\ ~result.output_file
        /\ ~result.success
        /\ WriteError \notin Range(result.errors)

C16_Witness ==
    /\ interrupted = "collect"
    /\ pc = "exited"
    /\ exit_code = 130
    /\ result.successful >= 1
    /\ \A i \in 1..N : calls[i] >= 1
    /\ N = MaxVideos


\* C17: when at least one video was resolved and write_to_file raises, the
\* error appears only after every video was recorded; process_playlist
\* raises nothing and returns a report with success False, output_file
\* None and the write error as its only error, and total_videos, successful
\* and failed are what the resolution phase left.
C17_WriteFailureReported ==
    WriteError \in Range(result.errors) =>
        /\ ReportReturned
        /\ raised = "none"
        /\ \A i \in 1..N : st[i] = "recorded"
        /\ InFlight = {} /\ Queued = {}
        /\ ~result.success
        /\ ~result.output_file
        /\ ~output.written
        /\ result.errors = <<WriteError>>
        /\ result.successful >= 1
        /\ result.total_videos = N
        /\ result.successful = Len(video_data)
        /\ result.failed = Len(failed_videos)
        /\ result.successful + result.failed = N

C17_Witness ==
    /\ WriteError \in Range(result.errors)
    /\ pc = "exited"
    /\ exit_code = 1
    /\ result.successful = 1
    /\ result.failed = MaxVideos - 1


\* C18: the output file is written, and the report handed back, only when
\* every one of the N videos has its outcome recorded and no call is
\* pending or in flight.
C18_WriteOnlyAfterAllRecorded ==
    (pc = "write" \/ output.written \/ ReportReturned) =>
        /\ \A i \in 1..N : st[i] = "recorded"
        /\ \A i \in 1..N : TimesOk(i) + TimesKo(i) = 1
        /\ InFlight = {}
        /\ Queued = {}
        /\ N = source.entries \/ source.raises

C18_Witness ==
    /\ args.use_async
    /\ args.workers = 2
    /\ output.written
    /\ pc = "returned"
    /\ Len(output.content) = MaxVideos
    /\ output.content[1].title = 2


\* The futures the as_completed loop has taken and recorded.
Consumed == {i \in Items : st[i] = "recorded"}

\* A step of a worker thread: a video starts, retries or finishes.
WorkerStep ==
    \E i \in Items :
        /\ st[i] \in {"queued", "running"}
        /\ st'[i] # st[i] \/ calls'[i] # calls[i]

WorkersLeaveAggregates ==
    (args.use_async /\ WorkerStep) =>
        UNCHANGED <<result, video_data, failed_videos>>

CountersMatchLists ==
    (args.use_async /\ pc # "main") =>
        /\ result.successful = Len(video_data)
        /\ result.failed = Len(failed_videos)
        /\ result.successful + result.failed = Cardinality(Consumed)
        /\ pool_created => Cardinality(Consumed) <= result.total_videos

\* C20: in Bounded mode the counters and lists change only in steps of the
\* main thread, never in a worker's step, and in every state successful is
\* the length of the success list, failed the length of the failure list,
\* and their sum the number of futures consumed, at most total_videos.
C20_NoLostUpdates == []CountersMatchLists /\ [][WorkersLeaveAggregates]_vars

C20_Witness ==
    /\ args.use_async
    /\ pc = "collect"
    /\ Cardinality(InFlight) = 1
    /\ Cardinality(Consumed) = MaxVideos - 1
    /\ result.successful = 1
    /\ result.failed = MaxVideos - 2


\* The future of video i is completed (Terminal), or was never submitted.
Terminal(i) == st[i] \in {"done", "recorded"}

\* A queued item and an idle worker: the pool can take the item.
AdmissionOpen == (Queued # {} /\ WorkerFree) => ENABLED PoolAdmits

\* main() ends only when no submitted item is left queued or running.
NoneLeftBehind ==
    pc = "exited" => \A i \in Items : st[i] = "new" \/ Terminal(i)

CallBudget == SumOver(calls, Items) <= N * args.retries

\* C19: in Bounded mode, when every call returns and the threads are
\* scheduled fairly, the run ends, and it ends with every submitted video's
\* future completed, so every queued video was taken by a worker (which is
\* always possible while a worker is idle); the run never makes more than
\* N * max_retries calls.
C19_BoundedProgress ==
    /\ <>(pc = "exited")
    /\ [](AdmissionOpen /\ NoneLeftBehind /\ CallBudget)

C19_Witness ==
    /\ pc = "exited"
    /\ args.workers = 1
    /\ N = MaxVideos
    /\ SumOver(calls, Items) = MaxVideos * MaxRetries
    /\ result.failed = MaxVideos


\* A call is in flight for video i only inside its retry loop, before any
\* answer with a URL was stored.
InFlightInsideLoop ==
    \A i \in Items : st[i] = "running" => (calls[i] >= 1 /\ fut[i] = NoResult)

\* Attempts of one video start one at a time: the first when the video is
\* taken, attempt k+1 in the step in which attempt k returned no URL.
OneAttemptAtATime ==
    \A i \in Items :
        /\ calls'[i] \in {calls[i], calls[i] + 1}
        /\ calls'[i] = calls[i] + 1 =>
              /\ st'[i] = "running"
              /\ fut'[i] = NoResult
              /\ IF calls[i] = 0
                 THEN st[i] \in {"new", "queued"}
                 ELSE st[i] = "running" /\ fut[i] = NoResult

\* C21: in both modes the attempts for one video are strictly sequential:
\* at most one call is in flight for it, and attempt k+1 starts only when
\* attempt k has returned without a URL.
C21_AttemptsSequential == []InFlightInsideLoop /\ [][OneAttemptAtATime]_vars

C21_Witness ==
    /\ args.use_async
    /\ pc = "collect"
    /\ st[1] = "running" /\ calls[1] = MaxRetries
    /\ st[2] = "running" /\ calls[2] = 1


\* C22: in Bounded mode no inter-item delay is ever taken (the configured
\* delay is not slept at all), and a queued video is held back by nothing
\* but the pool being full: whenever a worker is idle it can be started.
C22_NoRateGovernorInBounded ==
    args.use_async =>
        /\ sleeps.delays = 0
        /\ sleeps.delay_ms = {}
        /\ sleeps.backoff_ms \subseteq {RetryPause}
        /\ (pool_created /\ Queued # {} /\ WorkerFree) =>
              ENABLED (\E i \in Items : StartWork(i))

C22_Witness ==
    /\ args.use_async
    /\ args.workers = 1
    /\ args.delay = DefaultDelay
    /\ st[1] = "done"
    /\ st[2] = "running"
    /\ st[3] = "queued"
    /\ sleeps.delays = 0


\* C23: whatever --retries value main() passes on as max_retries, a video
\* stands in the failure list only after at least one call of
\* get_direct_url was made for it (and returned no URL).
C23_FailureOnlyAfterAttempt ==
    \A i \in Items : TimesKo(i) >= 1 => calls[i] >= 1


\* The entries of data stand in playlist order (video i is the i-th of the
\* playlist).
InPlaylistOrder(data) ==
    \A j, k \in DOMAIN data :
        j < k => /\ data[j].title < data[k].title
                 /\ data[j].title \in 1..N
                 /\ videos[data[j].title] = data[j].title

\* C24: in Sequential mode the success list, and with it the entries of the
\* written output file, is a subsequence of the playlist in playlist order.
C24_SequentialOutputOrder ==
    ~args.use_async =>
        /\ InPlaylistOrder(video_data)
        /\ InPlaylistOrder(output.content)
        /\ output.written => output.content = video_data

C24_Witness ==
    /\ ~args.use_async
    /\ output.written
    /\ Len(output.content) = 2
    /\ output.content[1].title = 1
    /\ output.content[2].title = MaxVideos
    /\ failed_videos # <<>>


\* C25: main() exits 0 exactly when process_playlist returned a report with
\* success True, 130 exactly when a Ctrl-C raised inside process_playlist
\* reached main(), and 1 in every other case (rejected arguments, a report
\* with success False, any other exception); the status chosen after a
\* returned report is the final one.
C25_ExitCodes ==
    /\ pc # "exited" => exit_code = -1
    /\ pc = "exited" =>
          /\ exit_code \in {0, 1, 130}
          /\ exit_code = 0 <=> (ReportReturned /\ result.success)
          /\ exit_code = 130 <=> raised = "KeyboardInterrupt"
          /\ raised = "KeyboardInterrupt" <=> interrupted # "no"
          /\ (ReportReturned /\ ~result.success) => exit_code = 1
          /\ raised = "TypeError" => exit_code = 1
          /\ ~ArgsValid => exit_code = 1

C25_Witness ==
    /\ pc = "exited"
    /\ exit_code = 0
    /\ args.use_async
    /\ result.failed >= 1
    /\ output.written


\* C7: with a client whose answer is fixed per id, the same playlist and
\* the same max_retries, a Sequential run and a Bounded run (any
\* max_workers, any completion order) that both return a report end with
\* the same set of successful items and the same set of failed items.
C7_SameOutcomeSets ==
    (run = 2 /\ prev.returned /\ ReportReturned
        /\ prev.use_async # args.use_async) =>
        /\ Titles(video_data) = prev.ok
        /\ Range(failed_videos) = prev.ko
        /\ result.successful = prev.result.successful
        /\ result.failed = prev.result.failed

C7_Witness ==
    /\ run = 2
    /\ ~prev.use_async
    /\ args.use_async
    /\ prev.returned
    /\ ReportReturned
    /\ prev.ko # {}
    /\ Len(video_data) >= 2
    /\ video_data[1].title > video_data[2].title


\* C15: with a client whose answer is fixed per id, two runs of
\* process_playlist on the same playlist in the same mode with the same
\* settings that both return a report agree on total_videos, successful and
\* failed and on the successful items and the failed titles (each listed
\* once), whatever the scheduling of the workers in either run.
C15_RerunSameReport ==
    (run = 2 /\ prev.returned /\ ReportReturned
        /\ prev.use_async = args.use_async) =>
        /\ result.total_videos = prev.result.total_videos
        /\ result.successful = prev.result.successful
        /\ result.failed = prev.result.failed
        /\ Titles(video_data) = prev.ok
        /\ Range(failed_videos) = prev.ko
        /\ Len(video_data) = Cardinality(prev.ok)
        /\ Len(failed_videos) = Cardinality(prev.ko)

C15_Witness ==
    /\ run = 2
    /\ prev.use_async
    /\ args.use_async
    /\ prev.returned
    /\ ReportReturned
    /\ prev.ok # {}
    /\ Len(failed_videos) >= 2
    /\ failed_videos[1] > failed_videos[2]


\* ------------------------------------------------------ the web application

Responded == web.pc = "done"

\* C26: POST /api/generate-urls with an empty list of videos is answered
\* with status 400 and detail "No videos selected"; no call of
\* get_direct_url is made and no file is written.
C26_EmptySelectionIs400 ==
    (web.endpoint = "generate" /\ web.videos = 0 /\ Responded) =>
        /\ web.status_code = 400
        /\ web.detail = <<"No videos selected">>
        /\ \A k \in Selected : web.calls[k] = 0
        /\ ~web.file

\* C27: POST /api/fetch-playlist is answered with status 404 and detail
\* "No videos found in playlist" when the metadata source returns no
\* video without raising, and with status 500 only when it raised.
C27_EmptyPlaylistIs404 ==
    (web.endpoint = "fetch" /\ Responded) =>
        /\ (~web.meta.raises /\ web.meta.entries = 0) =>
              /\ web.status_code = 404
              /\ web.detail = <<"No videos found in playlist">>
        /\ web.status_code = 500 => web.meta.raises

\* C28: for POST /api/generate-urls with N >= 1 videos every video gets
\* exactly one call of get_direct_url (none is retried), at most 10 calls
\* are in flight, the results list has one entry per video in request
\* order, and a success response has total_successful + total_failed = N
\* with the successful entries in request order.
C28_GenerateOneCallEach ==
    (web.endpoint = "generate" /\ web.videos >= 1) =>
        /\ Cardinality(WebInFlight) <= WebWorkers
        /\ \A k \in Selected :
              /\ web.calls[k] <= 1
              /\ web.calls[k] = 1 <=> web.job[k] \in {"running", "ok", "fail"}
              /\ web.job[k] # "new" => k <= web.videos
        /\ \A j \in DOMAIN web.results :
              /\ web.results[j].id = j
              /\ web.results[j].success = web.answers[j]
              /\ web.calls[j] = 1
        /\ web.pc \in {"respond", "except", "done"} =>
              /\ Len(web.results) = web.videos
              /\ WebInFlight = {} /\ WebQueued = {}
        /\ web.status_code = 200 =>
              /\ web.body.total_successful + web.body.total_failed = web.videos
              /\ web.body.total_successful = Len(web.body.successful)
              /\ web.body.total_failed = Len(web.body.failed_videos)
              /\ \A i, j \in DOMAIN web.body.successful :
                    i < j => web.body.successful[i] < web.body.successful[j]
              /\ \A k \in 1..web.videos :
                    IF web.answers[k]
                    THEN k \in Range(web.body.successful)
                         /\ k \notin Range(web.body.failed_videos)
                    ELSE k \in Range(web.body.failed_videos)
                         /\ k \notin Range(web.body.successful)
              /\ web.file

C28_Witness ==
    /\ web.endpoint = "generate"
    /\ web.videos = MaxSelected
    /\ web.status_code = 200
    /\ web.body.total_failed >= 2
    /\ web.body.total_successful >= 2
    /\ web.body.successful[1] = 2

====
